---- MODULE Spec2Model ----
(***************************************************************************)
(* frankencell: interior mutability checked by const-generic identity      *)
(* tags.  The model covers the issuer (first), the TokenBuilder chain,     *)
(* TokenWith, Cell and the push-only Arena of examples/arena.rs.  What the *)
(* compiler enforces (tag unification of const ID, move semantics and the  *)
(* shared/exclusive borrow discipline on the receivers and arguments of    *)
(* each method) appears as the guard of the corresponding action.          *)
(***************************************************************************)
EXTENDS Integers, Sequences, FiniteSets, TLC

\* ---- bounds ----
NumThreads == 2
MaxCalls == 3
MaxTag == 2
MaxTokens == 3
MaxArenas == 2
MaxLen == 2
MaxCells == 1
MaxRefs == 2
MaxVal == 1

Threads == 1..NumThreads
MainThread == {1}
Values == 0..MaxVal
USizes == 0..MaxLen
Tags == 0..MaxTag
NoBuilder == -1
NoToken == 0

VARIABLES
    once,       \* state of the static FIRST: Once
    pc,         \* per thread: position inside first()
    local,      \* per thread: the local `builder` of first()
    someCount,  \* number of first() calls that returned Some
    noneCount,  \* number of first() calls that returned None
    builders,   \* tag -> number of live TokenBuilder<tag> values
    made,       \* tag -> number of TokenBuilder<tag> values ever constructed
    consumed,   \* tag -> number of token()/token_with() calls on TokenBuilder<tag>
    derived,    \* tags of the tokens derived from the chain, in order
    tokens,     \* every TokenWith ever constructed (index = identity)
    arenas,     \* every Arena constructed
    cells,      \* every Cell constructed
    refs        \* live references handed out by the accessors

vars == <<once, pc, local, someCount, noneCount, builders, made, consumed,
          derived, tokens, arenas, cells, refs>>

issuerVars == <<once, pc, local, someCount, noneCount>>
chainVars == <<builders, made, consumed, derived>>

\* ---- lib.rs: first() ----

\* Once::call_once runs the closure only for the caller that finds the
\* Once incomplete
OnceShouldRunAlways(state) == state # "RUNNING"
OnceShouldRun(state) == state = "INCOMPLETE"

\* let mut builder = None;   (at most `limit` calls are made in a run)
FirstEnter(t, limit) ==
    /\ pc[t] = "idle"
    /\ someCount + noneCount
         + Cardinality({u \in Threads : pc[u] # "idle"}) < limit
    /\ local' = [local EXCEPT ![t] = NoBuilder]
    /\ pc' = [pc EXCEPT ![t] = "call_once"]
    /\ UNCHANGED <<once, someCount, noneCount, chainVars, tokens, arenas, cells, refs>>

\* FIRST.call_once(...): the winner claims the Once, a caller that finds it
\* complete skips the closure, a caller that finds it running blocks
CallOnce(t) ==
    /\ pc[t] = "call_once"
    /\ \/ /\ OnceShouldRun(once)
          /\ once' = "RUNNING"
          /\ pc' = [pc EXCEPT ![t] = "closure"]
       \/ /\ ~OnceShouldRun(once)
          /\ once = "COMPLETE"
          /\ pc' = [pc EXCEPT ![t] = "ret"]
          /\ once' = once
    /\ UNCHANGED <<local, someCount, noneCount, chainVars, tokens, arenas, cells, refs>>

\* builder = Some(unsafe { TokenBuilder::new() });
Closure(t) ==
    /\ pc[t] = "closure"
    /\ local' = [local EXCEPT ![t] = 0]
    /\ made' = [made EXCEPT ![0] = @ + 1]
    /\ pc' = [pc EXCEPT ![t] = "finish"]
    /\ UNCHANGED <<once, someCount, noneCount, builders, consumed, derived,
                   tokens, arenas, cells, refs>>

\* the closure returned: the Once becomes complete and waiters are released
OnceFinish(t) ==
    /\ pc[t] = "finish"
    /\ once' = "COMPLETE"
    /\ pc' = [pc EXCEPT ![t] = "ret"]
    /\ UNCHANGED <<local, someCount, noneCount, chainVars, tokens, arenas, cells, refs>>

\* builder   (the value of first())
FirstReturn(t) ==
    /\ pc[t] = "ret"
    /\ pc' = [pc EXCEPT ![t] = "idle"]
    /\ IF local[t] = NoBuilder
         THEN /\ noneCount' = noneCount + 1
              /\ UNCHANGED <<someCount, builders>>
         ELSE /\ someCount' = someCount + 1
              /\ builders' = [builders EXCEPT ![local[t]] = @ + 1]
              /\ UNCHANGED noneCount
    /\ UNCHANGED <<once, local, made, consumed, derived, tokens, arenas, cells, refs>>

\* ---- builder.rs: TokenBuilder ----

\* the const expression {ID + 1}
NextIDSame(id) == id
NextID(id) == id + 1

\* TokenWith::new(t)
TokenWithNew(id, ty, u, origin) ==
    [tag |-> id, ty |-> ty, payload |-> u, origin |-> origin, live |-> TRUE]

\* `self` is moved into token()/token_with()
MoveBuilderKeep(bs, id) == bs
MoveBuilder(bs, id) == [bs EXCEPT ![id] = @ - 1]

\* the pair returned by token_with: the token and TokenBuilder<{ID + 1}>
BuilderStep(id, ty, u) ==
    /\ builders[id] > 0
    /\ id < MaxTag
    /\ Len(tokens) < MaxTokens
    /\ tokens' = Append(tokens, TokenWithNew(id, ty, u, 0))
    /\ builders' = [MoveBuilder(builders, id) EXCEPT ![NextID(id)] = @ + 1]
    /\ made' = [made EXCEPT ![NextID(id)] = @ + 1]
    /\ consumed' = [consumed EXCEPT ![id] = @ + 1]
    /\ derived' = Append(derived, id)
    /\ UNCHANGED <<issuerVars, arenas, cells, refs>>

\* TokenBuilder::token(self)
BuilderToken(id) == BuilderStep(id, "unit", 0)

\* TokenBuilder::token_with(self, u) with U = usize
BuilderTokenWith(id, u) == BuilderStep(id, "usize", u)

\* init_tokens! { after $first; n names then $next }: the tags of the tokens
\* bound by  $( let ($name, $next) = $next.token(); )*
RECURSIVE InitTokensTags(_, _)
InitTokensTags(id, n) ==
    IF n = 0 THEN <<>> ELSE <<id>> \o InitTokensTags(NextID(id), n - 1)

Count(seq, x) == Cardinality({k \in 1..Len(seq) : seq[k] = x})

InitTokens(id, n) ==
    LET tags == InitTokensTags(id, n)
        nexts == [k \in 1..n |-> NextID(tags[k])]
    IN  /\ builders[id] > 0
        /\ \A k \in 1..n : tags[k] < MaxTag
        /\ Len(tokens) + n <= MaxTokens
        /\ tokens' = tokens \o [k \in 1..n |-> TokenWithNew(tags[k], "unit", 0, 0)]
        /\ builders' = [MoveBuilder(builders, id) EXCEPT ![nexts[n]] = @ + 1]
        /\ made' = [t \in Tags |-> made[t] + Count(nexts, t)]
        /\ consumed' = [t \in Tags |-> consumed[t] + Count(tags, t)]
        /\ derived' = derived \o tags
        /\ UNCHANGED <<issuerVars, arenas, cells, refs>>

\* ---- the compiler's checks on the accessors' signatures ----

\* the token argument and the storage receiver name the same const ID
SameIDAny(a, b) == TRUE
SameID(a, b) == a = b

LiveTokens == {i \in 1..Len(tokens) : tokens[i].live}
RefsVia(i) == {r \in refs : r.via = i}
RefsTo(store, sid) == {r \in refs : r.store = store /\ r.sid = sid}

\* a `&TokenWith` argument: no exclusive borrow of the token is outstanding
CanShareToken(i) == \A r \in RefsVia(i) : r.kind = "shared"
\* a `&mut TokenWith` argument, or moving the token: no borrow is outstanding
CanMutToken(i) == RefsVia(i) = {}

\* ---- tokens.rs: TokenWith ----

\* TokenWith::get(&self) -> &T
TokenGet(tok) == tok.payload

\* *token.get_mut() = u   (TokenWith<usize, ID>::get_mut(&mut self) -> &mut T)
TokenGetMut(i, u) ==
    /\ i \in LiveTokens
    /\ tokens[i].ty = "usize"
    /\ CanMutToken(i)
    /\ tokens[i].payload # u
    /\ tokens' = [tokens EXCEPT ![i].payload = u]
    /\ UNCHANGED <<issuerVars, chainVars, arenas, cells, refs>>

\* ---- cells.rs: Cell ----

\* Cell::new(t)
CellNewDefault(v) == [inner |-> 0]
CellNew(v) == [inner |-> v]

\* Cell::<T, ID>::new(v): ID is whatever the use site infers
CellCreate(id, v) ==
    /\ Len(cells) < MaxCells
    /\ id < MaxTag
    /\ cells' = Append(cells, [tag |-> id, cell |-> CellNew(v),
                               init |-> v, written |-> FALSE])
    /\ UNCHANGED <<issuerVars, chainVars, tokens, arenas, refs>>

\* Cell::borrow(&self, _: &TokenWith<U, ID>) -> &T
CellBorrow(c, i) ==
    /\ c \in 1..Len(cells)
    /\ i \in LiveTokens
    /\ Cardinality(refs) < MaxRefs
    /\ SameID(tokens[i].tag, cells[c].tag)
    /\ CanShareToken(i)
    /\ \A r \in RefsTo("cell", c) : r.via # NoToken
    /\ refs' = refs \cup {[kind |-> "shared", store |-> "cell", sid |-> c, pos |-> 0,
                           via |-> i, seen |-> cells[c].cell.inner]}
    /\ UNCHANGED <<issuerVars, chainVars, tokens, arenas, cells>>

\* Cell::borrow_mut(&self, _: &mut TokenWith<U, ID>) -> &mut T
CellBorrowMut(c, i) ==
    /\ c \in 1..Len(cells)
    /\ i \in LiveTokens
    /\ Cardinality(refs) < MaxRefs
    /\ SameID(tokens[i].tag, cells[c].tag)
    /\ CanMutToken(i)
    /\ \A r \in RefsTo("cell", c) : r.via # NoToken
    /\ refs' = refs \cup {[kind |-> "mut", store |-> "cell", sid |-> c, pos |-> 0,
                           via |-> i, seen |-> cells[c].cell.inner]}
    /\ UNCHANGED <<issuerVars, chainVars, tokens, arenas, cells>>

\* Cell::get_mut(&mut self) -> &mut T
CellGetMut(c) ==
    /\ c \in 1..Len(cells)
    /\ Cardinality(refs) < MaxRefs
    /\ RefsTo("cell", c) = {}
    /\ refs' = refs \cup {[kind |-> "mut", store |-> "cell", sid |-> c, pos |-> 0,
                           via |-> NoToken, seen |-> cells[c].cell.inner]}
    /\ UNCHANGED <<issuerVars, chainVars, tokens, arenas, cells>>

\* *r = v through a `&mut T` obtained from borrow_mut or get_mut
CellWrite(r, v) ==
    /\ r \in refs
    /\ r.kind = "mut"
    /\ r.store = "cell"
    /\ cells[r.sid].cell.inner # v
    /\ cells' = [cells EXCEPT ![r.sid].cell.inner = v, ![r.sid].written = TRUE]
    /\ UNCHANGED <<issuerVars, chainVars, tokens, arenas, refs>>

\* a reference goes out of scope
RefDrop(r) ==
    /\ r \in refs
    /\ refs' = refs \ {r}
    /\ UNCHANGED <<issuerVars, chainVars, tokens, arenas, cells>>

\* ---- examples/arena.rs: Arena ----

\* a token that was moved away is gone; only its identity and tag are kept
Moved(tok) == [tag |-> tok.tag, ty |-> "unit", payload |-> 0, origin |-> 0, live |-> FALSE]

\* impl From<TokenWith<U, ID>> for Arena<T, ID>: the token is moved in
ArenaFrom(i) ==
    /\ i \in LiveTokens
    /\ Len(arenas) < MaxArenas
    /\ CanMutToken(i)
    /\ tokens' = [tokens EXCEPT ![i] = Moved(@)]
    /\ arenas' = Append(arenas, [tag |-> tokens[i].tag, inner |-> <<>>, reallocs |-> 0])
    /\ UNCHANGED <<issuerVars, chainVars, cells, refs>>

\* inner.push(item)
VecPushFront(inner, item) == <<item>> \o inner
VecPush(inner, item) == Append(inner, item)

\* Arena::push(&mut self, item) -> Index<ID>; Vec::push may move the buffer
ArenaPush(a, item, moved) ==
    /\ a \in 1..Len(arenas)
    /\ Len(arenas[a].inner) < MaxLen
    /\ Len(tokens) < MaxTokens
    /\ RefsTo("elem", a) = {}
    /\ LET pos == Len(arenas[a].inner) IN
         /\ arenas' = [arenas EXCEPT ![a].inner = VecPush(@, item),
                                     ![a].reallocs = IF moved THEN @ + 1 ELSE @]
         /\ tokens' = Append(tokens, TokenWithNew(arenas[a].tag, "usize", pos, a))
    /\ UNCHANGED <<issuerVars, chainVars, cells, refs>>

\* inner.get_unchecked(*index.get()): reading outside the stored elements is
\* undefined behaviour, any value may be observed
GetUnchecked(inner, pos) ==
    IF pos < Len(inner) THEN {inner[pos + 1]} ELSE Values

\* Arena::get(&self, index: &Index<ID>) -> &T
ArenaGet(a, i) ==
    /\ a \in 1..Len(arenas)
    /\ i \in LiveTokens
    /\ Cardinality(refs) < MaxRefs
    /\ tokens[i].ty = "usize"
    /\ SameID(tokens[i].tag, arenas[a].tag)
    /\ CanShareToken(i)
    /\ \E v \in GetUnchecked(arenas[a].inner, TokenGet(tokens[i])) :
         refs' = refs \cup {[kind |-> "shared", store |-> "elem", sid |-> a,
                             pos |-> TokenGet(tokens[i]), via |-> i, seen |-> v]}
    /\ UNCHANGED <<issuerVars, chainVars, tokens, arenas, cells>>

\* Arena::get_mut(&self, index: &mut Index<ID>) -> &mut T
ArenaGetMut(a, i) ==
    /\ a \in 1..Len(arenas)
    /\ i \in LiveTokens
    /\ Cardinality(refs) < MaxRefs
    /\ tokens[i].ty = "usize"
    /\ SameID(tokens[i].tag, arenas[a].tag)
    /\ CanMutToken(i)
    /\ \E v \in GetUnchecked(arenas[a].inner, TokenGet(tokens[i])) :
         refs' = refs \cup {[kind |-> "mut", store |-> "elem", sid |-> a,
                             pos |-> TokenGet(tokens[i]), via |-> i, seen |-> v]}
    /\ UNCHANGED <<issuerVars, chainVars, tokens, arenas, cells>>

\* *r = v through the `&mut T` of Arena::get_mut, inside the stored elements
ElemWrite(r, v) ==
    /\ r \in refs
    /\ r.kind = "mut"
    /\ r.store = "elem"
    /\ r.pos < Len(arenas[r.sid].inner)
    /\ arenas[r.sid].inner[r.pos + 1] # v
    /\ arenas' = [arenas EXCEPT ![r.sid].inner[r.pos + 1] = v]
    /\ UNCHANGED <<issuerVars, chainVars, tokens, cells, refs>>

Init ==
    /\ once = "INCOMPLETE"
    /\ pc = [t \in Threads |-> "idle"]
    /\ local = [t \in Threads |-> NoBuilder]
    /\ someCount = 0
    /\ noneCount = 0
    /\ builders = [i \in Tags |-> 0]
    /\ made = [i \in Tags |-> 0]
    /\ consumed = [i \in Tags |-> 0]
    /\ derived = <<>>
    /\ tokens = <<>>
    /\ arenas = <<>>
    /\ cells = <<>>
    /\ refs = {}

\* first() and the builder chain, with first() called from several threads
NextIssuer ==
    \/ \E t \in Threads : FirstEnter(t, MaxCalls)
    \/ \E t \in Threads : CallOnce(t)
    \/ \E t \in Threads : Closure(t)
    \/ \E t \in Threads : OnceFinish(t)
    \/ \E t \in Threads : FirstReturn(t)
    \/ \E id \in Tags : BuilderToken(id)
    \/ \E id \in Tags, u \in USizes : BuilderTokenWith(id, u)
    \/ \E id \in Tags, n \in 2..MaxTag : InitTokens(id, n)

SpecIssuer == Init /\ [][NextIssuer]_vars

\* first() as the examples call it: once, from the main thread
MainFirst ==
    \/ \E t \in MainThread : FirstEnter(t, 1)
    \/ \E t \in MainThread : CallOnce(t)
    \/ \E t \in MainThread : Closure(t)
    \/ \E t \in MainThread : OnceFinish(t)
    \/ \E t \in MainThread : FirstReturn(t)

\* tokens and the cells they guard
NextCell ==
    \/ MainFirst
    \/ \E id \in Tags : BuilderToken(id)
    \/ \E id \in Tags, v \in Values : CellCreate(id, v)
    \/ \E c \in 1..MaxCells, i \in 1..MaxTokens : CellBorrow(c, i)
    \/ \E c \in 1..MaxCells, i \in 1..MaxTokens : CellBorrowMut(c, i)
    \/ \E c \in 1..MaxCells : CellGetMut(c)
    \/ \E r \in refs, v \in Values : CellWrite(r, v)
    \/ \E r \in refs : RefDrop(r)

SpecCell == Init /\ [][NextCell]_vars

\* tokens, the arenas built from them and the indexes the arenas issue; what
\* a write through get_mut can leave in an element, a push can put there
NextArena ==
    \/ MainFirst
    \/ \E id \in Tags : BuilderToken(id)
    \/ \E i \in 1..MaxTokens, u \in USizes : TokenGetMut(i, u)
    \/ \E i \in 1..MaxTokens : ArenaFrom(i)
    \/ \E a \in 1..MaxArenas, item \in Values, moved \in BOOLEAN : ArenaPush(a, item, moved)

SpecArena == Init /\ [][NextArena]_vars

\* every way to create a token, a storage or a reference into a storage; the
\* values stored play no part in which token a storage accepts
NextAccess ==
    \/ MainFirst
    \/ \E id \in Tags : BuilderToken(id)
    \/ \E id \in Tags, u \in {0} : BuilderTokenWith(id, u)
    \/ \E id \in Tags, v \in {0} : CellCreate(id, v)
    \/ \E c \in 1..MaxCells, i \in 1..MaxTokens : CellBorrow(c, i)
    \/ \E c \in 1..MaxCells, i \in 1..MaxTokens : CellBorrowMut(c, i)
    \/ \E c \in 1..MaxCells : CellGetMut(c)
    \/ \E i \in 1..MaxTokens : ArenaFrom(i)
    \/ \E a \in 1..MaxArenas, item \in {0}, moved \in {FALSE} : ArenaPush(a, item, moved)
    \/ \E a \in 1..MaxArenas, i \in 1..MaxTokens : ArenaGet(a, i)
    \/ \E a \in 1..MaxArenas, i \in 1..MaxTokens : ArenaGetMut(a, i)
    \/ \E r \in refs : RefDrop(r)

SpecAccess == Init /\ [][NextAccess]_vars

\* the whole library used from one thread
Next ==
    \/ MainFirst
    \/ \E id \in Tags : BuilderToken(id)
    \/ \E id \in Tags, u \in USizes : BuilderTokenWith(id, u)
    \/ \E id \in Tags, n \in 2..MaxTag : InitTokens(id, n)
    \/ \E i \in 1..MaxTokens, u \in USizes : TokenGetMut(i, u)
    \/ \E id \in Tags, v \in Values : CellCreate(id, v)
    \/ \E c \in 1..MaxCells, i \in 1..MaxTokens : CellBorrow(c, i)
    \/ \E c \in 1..MaxCells, i \in 1..MaxTokens : CellBorrowMut(c, i)
    \/ \E c \in 1..MaxCells : CellGetMut(c)
    \/ \E r \in refs, v \in Values : CellWrite(r, v)
    \/ \E r \in refs : RefDrop(r)
    \/ \E i \in 1..MaxTokens : ArenaFrom(i)
    \/ \E a \in 1..MaxArenas, item \in Values, moved \in BOOLEAN : ArenaPush(a, item, moved)
    \/ \E a \in 1..MaxArenas, i \in 1..MaxTokens : ArenaGet(a, i)
    \/ \E a \in 1..MaxArenas, i \in 1..MaxTokens : ArenaGetMut(a, i)
    \/ \E r \in refs, v \in Values : ElemWrite(r, v)

Spec == Init /\ [][Next]_vars

\* ---- properties ----

AllIdle == \A t \in Threads : pc[t] = "idle"

FirstOnceState ==
    /\ someCount <= 1
    /\ made[0] <= 1
    /\ \A t \in Threads : local[t] \in {NoBuilder, 0}
    /\ noneCount > 0 => once = "COMPLETE"
    /\ (AllIdle /\ someCount + noneCount > 0) => someCount = 1

\* C1: over all calls of first(), from any thread and in any interleaving, at
\* most one call returns Some, it carries the builder of tag 0, every other
\* call returns None, once the calls are over exactly one returned Some, and
\* the Once never goes back to incomplete.
C1_FirstOnce ==
    /\ []FirstOnceState
    /\ [][once # "INCOMPLETE" => once' # "INCOMPLETE"]_vars

\* two calls race: one is about to return Some, the other None
C1_Witness ==
    \E t, u \in Threads :
        /\ pc[t] = "ret" /\ local[t] = 0
        /\ pc[u] = "ret" /\ local[u] = NoBuilder

\* C2: no two live tokens, the indexes an arena issues included, carry the
\* same tag.
C2_UniqueTags ==
    \A i, j \in LiveTokens : i # j => tokens[i].tag # tokens[j].tag

MutRefsTo(store, sid, pos) ==
    {r \in refs : r.store = store /\ r.sid = sid /\ r.pos = pos /\ r.kind = "mut"}
SharedRefsTo(store, sid, pos) ==
    {r \in refs : r.store = store /\ r.sid = sid /\ r.pos = pos /\ r.kind = "shared"}

\* C3: the contents of a cell have at most one exclusive reference or any
\* number of shared references, never both.
C3_ExclusiveBorrow ==
    \A c \in 1..Len(cells) :
        /\ Cardinality(MutRefsTo("cell", c, 0)) <= 1
        /\ MutRefsTo("cell", c, 0) # {} => SharedRefsTo("cell", c, 0) = {}

\* C4: the tokens derived from the root builder carry the tags 0, 1, ..., N-1
\* in the order they were derived, and the builder left over has tag N.
C4_ChainTags ==
    /\ Len(tokens) = Len(derived)
    /\ \A k \in 1..Len(derived) : derived[k] = k - 1 /\ tokens[k].tag = k - 1
    /\ \A id \in Tags : builders[id] > 0 => id = Len(derived)

C4_Witness ==
    /\ Len(derived) = MaxTag
    /\ builders[MaxTag] = 1
    /\ \E k \in 1..Len(tokens) : tokens[k].ty = "usize"

InFlight(id) ==
    Cardinality({t \in Threads : pc[t] \in {"finish", "ret"} /\ local[t] = id})

C6_PushKeepsIndexes ==
    [][\A a \in 1..Len(arenas) :
          (Len(tokens') = Len(tokens) + 1 /\ tokens'[Len(tokens')].origin = a) =>
             LET old == arenas[a].inner
                 new == arenas'[a].inner
             IN  /\ Len(new) = Len(old) + 1
                 /\ SubSeq(new, 1, Len(old)) = old
                 /\ TokenGet(tokens'[Len(tokens')]) = Len(new) - 1
                 /\ \A i \in 1..Len(tokens) :
                      /\ tokens'[i] = tokens[i]
                      /\ (tokens[i].origin = a /\ TokenGet(tokens[i]) < Len(old)) =>
                           GetUnchecked(new, TokenGet(tokens[i]))
                             = GetUnchecked(old, TokenGet(tokens[i]))
      ]_vars

\* two pushes that both moved the buffer, the first index still at hand
C6_Witness ==
    \E a \in 1..Len(arenas) :
        /\ Len(arenas[a].inner) = 2
        /\ arenas[a].inner[1] # arenas[a].inner[2]
        /\ arenas[a].reallocs = 2
        /\ \E i, j \in LiveTokens :
             /\ tokens[i].origin = a /\ tokens[i].payload = 0
             /\ tokens[j].origin = a /\ tokens[j].payload = 1

\* C7: an index that an arena of its tag accepts holds a position below the
\* arena's length, and no reference handed out by get/get_mut lies outside
\* the stored elements.
C7_IndexInBounds ==
    /\ \A i \in LiveTokens, a \in 1..Len(arenas) :
         (tokens[i].ty = "usize" /\ SameID(tokens[i].tag, arenas[a].tag)) =>
            TokenGet(tokens[i]) < Len(arenas[a].inner)
    /\ \A r \in refs : r.store = "elem" => r.pos < Len(arenas[r.sid].inner)

\* C8: two live indexes issued by one arena hold different positions, and no
\* element has two exclusive references.
C8_DistinctPositions ==
    /\ \A i, j \in LiveTokens :
         (i # j /\ tokens[i].origin # 0 /\ tokens[i].origin = tokens[j].origin) =>
            TokenGet(tokens[i]) # TokenGet(tokens[j])
    /\ \A r \in refs : r.store = "elem" =>
         Cardinality(MutRefsTo("elem", r.sid, r.pos)) <= 1

\* C9: a shared borrow of a cell that has not been written since Cell::new(v)
\* reads v, whatever the tag of the cell and of the token.
C9_CellRoundTrip ==
    \A r \in refs :
        (r.store = "cell" /\ r.kind = "shared" /\ ~cells[r.sid].written) =>
           r.seen = cells[r.sid].init

C9_Witness ==
    \E r \in refs :
        /\ r.store = "cell" /\ r.kind = "shared"
        /\ ~cells[r.sid].written
        /\ r.seen = 1
        /\ tokens[r.via].tag = 1

StorageTag(r) == IF r.store = "cell" THEN cells[r.sid].tag ELSE arenas[r.sid].tag

\* C10: every reference obtained with a token comes from a storage of the
\* token's tag.
C10_TagsMatch ==
    \A r \in refs : r.via # NoToken => tokens[r.via].tag = StorageTag(r)

\* an element is borrowed through an index while an index-typed token and a
\* cell of another tag are at hand
C10_Witness ==
    \E r \in refs, j \in LiveTokens, c \in 1..Len(cells) :
        /\ r.store = "elem"
        /\ tokens[j].ty = "usize"
        /\ tokens[j].tag # arenas[r.sid].tag
        /\ cells[c].tag # tokens[r.via].tag
====
